---- MODULE Spec2Model ----
(***************************************************************************)
(* A model of peterhellberg/live: a static file server that reloads the    *)
(* connected browsers when a file under the served root changes.           *)
(*                                                                         *)
(* The sources hold three revisions of the program:                        *)
(*   src/main.go 1-275      ("main")   : flags -root/-wait/-ignore         *)
(*   src/main.go 277-552               : the same code with the flags and  *)
(*                                       isIgnored renamed (-dir/-debounce/*)
(*                                       -exclude, isExcluded)             *)
(*   src/unnamed/part_000   ("part000"): watchState with the modification  *)
(*                                       time filter, watchDirRecursive,   *)
(*                                       the <head> anchor                 *)
(* The variable `variant` says which revision a behaviour is of.  The two  *)
(* halves of src/main.go differ in names only and share the "main" model.  *)
(*                                                                         *)
(* Specifications:                                                         *)
(*   Spec          the watcher: startup walk, event loop, debounce timer   *)
(*   SpecBroadcast reloader + endpoint handlers as the program runs them   *)
(*   FairBroadcast SpecBroadcast with weak fairness of every goroutine     *)
(*   SpecReloader  add/remove/notify with the deferred remove running      *)
(*   FairReloader  SpecReloader with weak fairness of every goroutine      *)
(*   FairStream    FairBroadcast with the peers staying connected          *)
(*   SpecLive      the watcher with one registered client                  *)
(*   SpecRoot      the root handler over every small request and disk      *)
(*   SpecWalk      the startup walk over every small directory tree        *)
(*   SpecIgnore    isIgnored / isExcluded over every small input           *)
(*   SpecInject    injectReload over every small document                  *)
(***************************************************************************)
EXTENDS Integers, Sequences, FiniteSets, TLC

VARIABLES
    \* ---- which revision of the program runs
    variant,
    \* ---- the watcher (watch, its event loop, the debounce timer)
    wpc,        \* "start" before watch() walked the root, "loop" in the event loop
    ignored,    \* the exclusion list: strings.Split(cfg.ignore, ",")
    fs,         \* the file system: path -> "none" | "file" | "dir"
    mtime,      \* modification time of each file
    watched,    \* the directories registered with the fsnotify watcher
    events,     \* watcher.Events: the change events not yet received
    errors,     \* watcher.Errors: the number of errors not yet received
    timer,      \* the coalescer's timer: [state, due]
    lastMod,    \* watchState.lastMod (part000): path -> recorded time, -1 = no entry
    now,        \* the clock, in ticks
    ops,        \* how many file system operations and watcher errors happened (bounded)
    log,        \* history: what the event loop and the timer did, for the claims
    \* ---- the broadcaster (reloader, endpoint)
    mu,         \* reloader.mu: Unlocked or the goroutine holding it
    clients,    \* reloader.clients: the registered channels
    hpc,        \* position of each endpoint handler goroutine
    connOpen,   \* whether the handler's peer still holds the connection
    chanBuf,    \* number of signals buffered in each handler's channel
    chanClosed, \* whether close(ch) ran on the channel
    closes,     \* how many times close(ch) ran on the channel
    frames,     \* "data: reload" frames the handler wrote
    npc,        \* position of each goroutine running notify()
    todo,       \* the channels notify()'s range loop has still to visit
    calls,      \* how many notify() calls started (bounded)
    hist,       \* history per handler, for the claims
    panicked,   \* a send on a closed channel or a second close happened
    \* ---- pure functions under test
    fpc,        \* "input" before the function ran, "done" after
    inPath, inList, outIgnored, outExcluded,
    inDoc, outDoc,
    \* ---- the root handler (newRootFunc)
    req,        \* req.URL.Path, as the names after the leading "/"
    disk,       \* what os.Stat and os.ReadFile find for the request
    resp        \* who answered, and with what

wvars == <<wpc, ignored, fs, mtime, watched, events, errors, timer, lastMod, now, ops, log>>
bvars == <<mu, clients, hpc, connOpen, chanBuf, chanClosed, closes, frames, npc, todo,
           calls, hist, panicked>>
rvars == <<req, disk, resp>>
pvars == <<fpc, inPath, inList, outIgnored, outExcluded, inDoc, outDoc, rvars>>
vars == <<variant, wvars, bvars, pvars>>

Variants == {"main", "part000"}

(***************************************************************************)
(* Strings are sequences of one-character strings.                         *)
(***************************************************************************)
RECURSIVE SeqsUpTo(_, _)
SeqsUpTo(S, n) ==
    IF n = 0 THEN {<<>>}
    ELSE LET shorter == SeqsUpTo(S, n - 1)
         IN  shorter \cup {Append(s, c) : s \in {t \in shorter : Len(t) = n - 1}, c \in S}

\* strings.Index / bytes.Index: the first i (from 0) with s[i:i+len(sub)] = sub, else -1
RECURSIVE IndexFrom(_, _, _)
IndexFrom(s, sub, i) ==
    IF i + Len(sub) > Len(s) THEN -1
    ELSE IF SubSeq(s, i + 1, i + Len(sub)) = sub THEN i
    ELSE IndexFrom(s, sub, i + 1)

Index(s, sub) == IndexFrom(s, sub, 0)

\* strings.Contains / bytes.Contains
Contains(s, sub) == Index(s, sub) >= 0

(***************************************************************************)
(* The exclusion filter.                                                   *)
(***************************************************************************)
RECURSIVE IgnoredLoop(_, _, _)
IgnoredLoop(path, list, k) ==
    IF k > Len(list) THEN FALSE
    ELSE IF list[k] # <<>> /\ Contains(path, list[k]) THEN TRUE
    ELSE IgnoredLoop(path, list, k + 1)

\* a filter that lost the `ex != ""` test
isIgnoredNoEmptyTest(path, list) ==
    \E k \in DOMAIN list : Contains(path, list[k])

isIgnored(path, list) == IgnoredLoop(path, list, 1)

isExcluded(path, excludes) == IgnoredLoop(path, excludes, 1)

(***************************************************************************)
(* Bounds of the watcher model.                                            *)
(***************************************************************************)
MaxDepth == 2      \* depth of the directory tree below the root
MaxOps == 3        \* file system operations and watcher errors in one behaviour
MaxTime == 4       \* the clock stops here
Debounce == 2      \* the -wait / -debounce duration, in ticks

(***************************************************************************)
(* Paths.  A path is the sequence of names below the root; PathStr is the  *)
(* string the program sees (filepath.Join of the root and the names).      *)
(***************************************************************************)
Names == {"g", "s"}
RootStr == <<"r">>
Root == <<>>
Paths == SeqsUpTo(Names, MaxDepth) \ {Root}

Parent(p) == SubSeq(p, 1, Len(p) - 1)

RECURSIVE PathStr(_)
PathStr(p) ==
    IF p = Root THEN RootStr
    ELSE PathStr(Parent(p)) \o <<"/", p[Len(p)]>>

\* byte order of the characters used in names
Ord(c) == CASE c = "/" -> 47 [] c = "g" -> 103 [] c = "r" -> 114 [] c = "s" -> 115
            [] OTHER -> 0

Kind(f, p) == IF p = Root THEN "dir" ELSE f[p]

\* os.ReadDir: the entries of directory p, sorted by file name
RECURSIVE SortByName(_)
SortByName(S) ==
    IF S = {} THEN <<>>
    ELSE LET first == CHOOSE q \in S : \A r \in S : Ord(q[Len(q)]) <= Ord(r[Len(r)])
         IN  <<first>> \o SortByName(S \ {first})

ReadDir(f, p) ==
    SortByName({q \in Paths : Len(q) = Len(p) + 1 /\ Parent(q) = p /\ f[q] # "none"})

Kinds == {"none", "file", "dir"}

\* every file system over the paths of at most d names in which an entry's
\* parent is a directory
RECURSIVE TreesTo(_)
TreesTo(d) ==
    IF d = 0 THEN {[p \in {} |-> "none"]}
    ELSE UNION {
           LET under == {p \in Paths : Len(p) = d /\ Kind(g, Parent(p)) = "dir"}
           IN  {[p \in {q \in Paths : Len(q) <= d} |->
                    IF Len(p) < d THEN g[p] ELSE IF p \in under THEN h[p] ELSE "none"] :
                  h \in [under -> Kinds]}
           : g \in TreesTo(d - 1)}

(***************************************************************************)
(* The walk of watch().  walkFn is the WalkDir callback: what it registers *)
(* and what it returns; walkDir and walkEntries are filepath.WalkDir's     *)
(* recursion, where SkipDir returned for a directory skips that directory  *)
(* and SkipDir returned for a file ends the loop over the directory that   *)
(* holds the file.                                                         *)
(***************************************************************************)
\* src/main.go 84-98: SkipDir for every ignored entry, file or directory
walkFnMain(str, isDir, list) ==
    IF isIgnored(str, list) THEN [add |-> FALSE, ret |-> "SkipDir"]
    ELSE [add |-> isDir, ret |-> "nil"]

\* src/unnamed/part_000 148-166: SkipDir only for an ignored directory
walkFnPart000(str, isDir, list) ==
    IF isIgnored(str, list)
    THEN [add |-> FALSE, ret |-> IF isDir THEN "SkipDir" ELSE "nil"]
    ELSE [add |-> isDir, ret |-> "nil"]

walkFn(v, str, isDir, list) ==
    IF v = "main" THEN walkFnMain(str, isDir, list) ELSE walkFnPart000(str, isDir, list)

RECURSIVE walkDir(_, _, _, _)
RECURSIVE walkEntries(_, _, _, _, _)
\* the loop `for _, d1 := range dirs` of walkDir, from entry k on
walkEntries(v, f, list, entries, k) ==
    IF k > Len(entries) THEN {}
    ELSE LET r == walkDir(v, f, list, entries[k])
         IN  IF r.ret = "SkipDir" THEN r.reg
             ELSE r.reg \cup walkEntries(v, f, list, entries, k + 1)

\* [reg: the directories registered below and at p, ret: what walkDir returns]
walkDir(v, f, list, p) ==
    LET isDir == Kind(f, p) = "dir"
        r == walkFn(v, PathStr(p), isDir, list)
        here == IF r.add THEN {p} ELSE {}
    IN  IF r.ret # "nil" \/ ~isDir
        THEN [reg |-> here, ret |-> IF r.ret = "SkipDir" /\ isDir THEN "nil" ELSE r.ret]
        ELSE [reg |-> here \cup walkEntries(v, f, list, ReadDir(f, p), 1), ret |-> "nil"]

\* filepath.WalkDir(root, fn): the directories the walk registers
WalkDir(v, f, list, root) == walkDir(v, f, list, root).reg

\* watchDirRecursive of part_000 (the walk of watch() in src/main.go is the same call)
watchDirRecursive(v, f, list, root) == WalkDir(v, f, list, root)

(***************************************************************************)
(* The coalescer.  timer.cur is the timer the coalescer holds (0 = nil),   *)
(* timer.live the runtime timers that have neither fired nor been stopped. *)
(***************************************************************************)
NoTimer == [cur |-> 0, live |-> {}]

\* timer.Stop(): the held timer no longer fires (no effect on a fired one)
StopTimer(t) == [t EXCEPT !.live = {x \in t.live : x.id # t.cur}]

\* time.AfterFunc(duration, notify): a new timer, held from now on
AfterFunc(t, id, due) == [cur |-> id, live |-> t.live \cup {[id |-> id, due |-> due]}]

\* a trigger that arms a new timer and leaves the previous one running
triggerNoStop(t, id, at) == AfterFunc(t, id, at + Debounce)

\* src/main.go 106-114: the trigger closure
triggerMain(t, id, at) ==
    AfterFunc(IF t.cur # 0 THEN StopTimer(t) ELSE t, id, at + Debounce)

\* a filter that lost the info.IsDir() test
passesFilterNoDirTest(f, mt, lm, p) ==
    /\ f[p] # "none"
    /\ ~(lm[p] # -1 /\ ~(mt[p] > lm[p]))

\* src/unnamed/part_000 124-136: whether watchState.trigger goes on to arm the timer
passesFilter(f, mt, lm, p) ==
    /\ f[p] = "file"                       \* os.Stat succeeds and !info.IsDir()
    /\ ~(lm[p] # -1 /\ ~(mt[p] > lm[p]))   \* no entry, or mod.After(last)

\* a trigger that arms without recording the modification time
triggerPart000NoRecord(t, id, at, f, mt, lm, p) ==
    IF passesFilter(f, mt, lm, p)
    THEN [timer |-> triggerMain(t, id, at), lastMod |-> lm, armed |-> TRUE]
    ELSE [timer |-> t, lastMod |-> lm, armed |-> FALSE]

\* watchState.trigger: [timer, lastMod, armed]
triggerPart000(t, id, at, f, mt, lm, p) ==
    IF passesFilter(f, mt, lm, p)
    THEN [timer |-> triggerMain(t, id, at), lastMod |-> [lm EXCEPT ![p] = mt[p]],
          armed |-> TRUE]
    ELSE [timer |-> t, lastMod |-> lm, armed |-> FALSE]

trigger(v, t, id, at, f, mt, lm, p) ==
    IF v = "main"
    THEN [timer |-> triggerMain(t, id, at), lastMod |-> lm, armed |-> TRUE]
    ELSE triggerPart000(t, id, at, f, mt, lm, p)

TimerDue == \E x \in timer.live : x.due <= now

(***************************************************************************)
(* The event loop's handling of a create event (os.Stat said: directory).  *)
(***************************************************************************)
\* an event loop that registers nothing after startup
registerNothing(v, f, list, w, p) == w

\* src/main.go 123-129 registers ev.Name; part_000 187-191 walks it
registerCreated(v, f, list, w, p) ==
    IF v = "main"
    THEN IF ~isIgnored(PathStr(p), list) THEN w \cup {p} ELSE w
    ELSE w \cup watchDirRecursive(v, f, list, p)

(***************************************************************************)
(* History kept for the claims (never read by the program's actions).      *)
(*   arms     timers armed so far (also the id of the newest timer)        *)
(*   accepted non-excluded events the loop received                        *)
(*   lastEv   when the last non-excluded event was received, -1 = none     *)
(*   bursts   bursts of non-excluded events: a burst ends when Debounce    *)
(*            ticks pass without a non-excluded event                      *)
(*   lastArm  when the last event that armed the timer was received         *)
(*   abursts  bursts of events that armed the timer                        *)
(*   fired    notify() calls made by timers                                *)
(*   lastFire when the last of them was made, -1 = none                    *)
(*   newDirs  non-excluded directories whose create event was received     *)
(*   born     non-excluded files created inside a directory of newDirs     *)
(*   owed     the born files that still exist and were modified with no    *)
(*            notify() since, each with the time of its last modification  *)
(*   paid     such modifications that were followed by notify()            *)
(*   walked   what the startup walk registered                             *)
(*   dropped  excluded events the loop received                            *)
(*   dropArmed whether one of them was received while a timer was pending  *)
(*   errs     watcher errors the loop received                             *)
(*   errArm   whether an event armed the timer after an error was received *)
(***************************************************************************)
InitLog ==
    [arms |-> 0, accepted |-> 0, lastEv |-> -1, bursts |-> 0, lastArm |-> -1,
     abursts |-> 0, fired |-> 0,
     lastFire |-> -1, newDirs |-> {}, born |-> {},
     owed |-> {}, paid |-> 0, walked |-> {},
     dropped |-> 0, dropArmed |-> FALSE, errs |-> 0, errArm |-> FALSE]

\* a loop that ends at the first watcher error
onWatcherErrorStop(pc) == "exit"

\* case err := <-watcher.Errors: fmt.Println("watch error:", err); the loop goes on
onWatcherError(pc) == pc

\* a loop that skips no event
skipNothing(name, list) == FALSE

\* if isIgnored(ev.Name, ignored) { continue }
skipEvent(name, list) == isIgnored(name, list)

(***************************************************************************)
(* The watcher's actions.                                                  *)
(***************************************************************************)
IgnoreLists == { << <<"g">> >>, << <<>> >>, << <<"s", "/">>, <<"g">> >>, << <<"r">> >> }

\* the trees the watcher model starts from: entries directly below the root, the
\* excluded name "g" among them or not (SpecWalk starts from every tree)
InitTrees ==
    {[p \in Paths |-> IF p = <<"g">> THEN k ELSE "none"] : k \in Kinds}

\* sync.Mutex: the goroutine that holds it, or nobody
Unlocked == <<>>

BroadcastIdle ==
    /\ mu = Unlocked /\ clients = {} /\ hpc = <<>> /\ connOpen = <<>>
    /\ chanBuf = <<>> /\ chanClosed = <<>> /\ closes = <<>> /\ frames = <<>>
    /\ npc = <<>> /\ todo = <<>> /\ calls = 0 /\ hist = <<>> /\ panicked = FALSE

NoDisk == [req |-> "none", index |-> "none", readable |-> FALSE]

NoResp == [by |-> "none", ctype |-> "", body |-> <<>>, url |-> <<>>]

RootIdle == req = <<>> /\ disk = NoDisk /\ resp = NoResp

PureIdle ==
    /\ RootIdle
    /\ fpc = "none" /\ inPath = <<>> /\ inList = <<>>
    /\ outIgnored = FALSE /\ outExcluded = FALSE /\ inDoc = <<>> /\ outDoc = <<>>

WatchIdle ==
    /\ wpc = "none" /\ ignored = <<>> /\ fs = [p \in Paths |-> "none"]
    /\ mtime = [p \in Paths |-> 0] /\ watched = {} /\ events = <<>> /\ errors = 0
    /\ timer = NoTimer /\ lastMod = [p \in Paths |-> -1] /\ now = 0 /\ ops = 0
    /\ log = InitLog

Init ==
    /\ variant \in Variants
    /\ wpc = "start"
    /\ ignored = << <<"g">> >>
    /\ fs \in InitTrees
    /\ mtime = [p \in Paths |-> 0]
    /\ watched = {}
    /\ events = <<>>
    /\ errors = 0
    /\ timer = NoTimer
    /\ lastMod = [p \in Paths |-> -1]
    /\ now = 0
    /\ ops = 0
    /\ log = InitLog
    /\ BroadcastIdle
    /\ PureIdle

\* watch(): the walk of the root, then the event loop starts (go func)
Startup ==
    /\ wpc = "start"
    /\ watched' = WalkDir(variant, fs, ignored, Root)
    /\ wpc' = "loop"
    /\ log' = [log EXCEPT !.walked = WalkDir(variant, fs, ignored, Root)]
    /\ UNCHANGED <<variant, ignored, fs, mtime, events, errors, timer, lastMod, now, ops,
                   bvars, pvars>>

\* fsnotify reports a change of an entry of a registered directory
Emit(p, op) ==
    IF Parent(p) \in watched THEN Append(events, [path |-> p, op |-> op]) ELSE events

EnvOp(p) ==
    /\ wpc = "loop"
    /\ ops < MaxOps
    /\ Kind(fs, Parent(p)) = "dir"
    /\ ~isIgnored(PathStr(Parent(p)), ignored)   \* nothing below an excluded directory
    /\ ops' = ops + 1
    /\ UNCHANGED <<variant, wpc, ignored, watched, errors, timer, lastMod, now, bvars, pvars>>

Mkdir(p) ==
    /\ EnvOp(p)
    /\ fs[p] = "none"
    /\ fs' = [fs EXCEPT ![p] = "dir"]
    /\ events' = Emit(p, "create")
    /\ UNCHANGED <<mtime, log>>

CreateFile(p) ==
    /\ EnvOp(p)
    /\ fs[p] = "none"
    /\ fs' = [fs EXCEPT ![p] = "file"]
    /\ mtime' = [mtime EXCEPT ![p] = now]
    /\ events' = Emit(p, "create")
    /\ log' = [log EXCEPT !.born = IF Parent(p) \in log.newDirs
                                       /\ ~isIgnored(PathStr(p), ignored)
                                    THEN @ \cup {p} ELSE @]

WriteFile(p) ==
    /\ EnvOp(p)
    /\ fs[p] = "file"
    /\ mtime' = [mtime EXCEPT ![p] = now]
    /\ events' = Emit(p, "write")
    /\ log' = [log EXCEPT !.owed = IF p \in log.born
                                    THEN {o \in @ : o.path # p}
                                         \cup {[path |-> p, at |-> now]}
                                    ELSE @]
    /\ UNCHANGED fs

RemoveFile(p) ==
    /\ EnvOp(p)
    /\ fs[p] = "file"
    /\ fs' = [fs EXCEPT ![p] = "none"]
    /\ mtime' = [mtime EXCEPT ![p] = 0]
    /\ events' = Emit(p, "remove")
    /\ log' = [log EXCEPT !.born = @ \ {p}, !.owed = {o \in @ : o.path # p}]

\* the file is moved out of the served tree
RenameFile(p) ==
    /\ EnvOp(p)
    /\ fs[p] = "file"
    /\ fs' = [fs EXCEPT ![p] = "none"]
    /\ mtime' = [mtime EXCEPT ![p] = 0]
    /\ events' = Emit(p, "rename")
    /\ log' = [log EXCEPT !.born = @ \ {p}, !.owed = {o \in @ : o.path # p}]

RaiseError ==
    /\ wpc = "loop"
    /\ ops < MaxOps
    /\ ops' = ops + 1
    /\ errors' = errors + 1
    /\ UNCHANGED <<variant, wpc, ignored, fs, mtime, watched, events, timer, lastMod, now,
                   log, bvars, pvars>>

\* case err := <-watcher.Errors: the error is printed
HandleError ==
    /\ wpc = "loop"
    /\ errors > 0
    /\ ~TimerDue
    /\ errors' = errors - 1
    /\ wpc' = onWatcherError(wpc)
    /\ log' = [log EXCEPT !.errs = @ + 1]
    /\ UNCHANGED <<variant, ignored, fs, mtime, watched, events, timer, lastMod, now,
                   ops, bvars, pvars>>

\* case ev := <-watcher.Events
HandleEvent ==
    /\ wpc = "loop"
    /\ events # <<>>
    /\ ~TimerDue
    /\ events' = Tail(events)
    /\ LET ev == Head(events)
           name == PathStr(ev.path)
       IN  IF skipEvent(name, ignored)
           THEN /\ log' = [log EXCEPT !.dropped = @ + 1,
                                      !.dropArmed = @ \/ timer.live # {}]
                /\ UNCHANGED <<watched, timer, lastMod>>
           ELSE LET newDir == ev.op = "create" /\ fs[ev.path] = "dir"
                    t == trigger(variant, timer, log.arms + 1, now, fs, mtime, lastMod,
                                 ev.path)
                IN  /\ watched' = IF newDir
                                  THEN registerCreated(variant, fs, ignored, watched, ev.path)
                                  ELSE watched
                    /\ timer' = t.timer
                    /\ lastMod' = t.lastMod
                    /\ log' = [log EXCEPT
                          !.arms = IF t.armed THEN @ + 1 ELSE @,
                          !.accepted = @ + 1,
                          !.lastEv = now,
                          !.bursts = IF log.lastEv = -1 \/ now - log.lastEv >= Debounce
                                     THEN @ + 1 ELSE @,
                          !.lastArm = IF t.armed THEN now ELSE @,
                          !.abursts = IF t.armed /\ (log.lastArm = -1
                                                     \/ now - log.lastArm >= Debounce)
                                      THEN @ + 1 ELSE @,
                          !.newDirs = IF newDir THEN @ \cup {ev.path} ELSE @,
                          !.errArm = @ \/ (t.armed /\ log.errs > 0)]
    /\ UNCHANGED <<variant, wpc, ignored, fs, mtime, errors, now, ops, bvars, pvars>>

\* a timer that stays pending after it fired, as a ticker does
expireKeeps(t, x) == t

\* a timer of time.AfterFunc fires once
expire(t, x) == [t EXCEPT !.live = @ \ {x}]

\* a timer's duration has passed: its function runs r.notify()
TimerExpires ==
    /\ wpc = "loop"
    /\ \E x \in timer.live :
          /\ x.due <= now
          /\ timer' = expire(timer, x)
    /\ log' = [log EXCEPT !.fired = @ + 1, !.lastFire = now,
                          !.owed = {}, !.paid = IF log.owed # {} THEN @ + 1 ELSE @]
    /\ UNCHANGED <<variant, wpc, ignored, fs, mtime, watched, events, errors, lastMod, now,
                   ops>>

\* No client is connected in this specification, so notify() locks, ranges over
\* nothing, unlocks.
TimerFire ==
    /\ TimerExpires
    /\ UNCHANGED <<bvars, pvars>>

\* time passes when the event loop has nothing to receive and no timer is due
Tick ==
    /\ wpc = "loop"
    /\ now < MaxTime
    /\ events = <<>> /\ errors = 0
    /\ ~TimerDue
    /\ now' = now + 1
    /\ UNCHANGED <<variant, wpc, ignored, fs, mtime, watched, events, errors, timer, lastMod,
                   ops, log, bvars, pvars>>

Next ==
    \/ Startup
    \/ \E p \in Paths : Mkdir(p)
    \/ \E p \in Paths : CreateFile(p)
    \/ \E p \in Paths : WriteFile(p)
    \/ \E p \in Paths : RemoveFile(p)
    \/ \E p \in Paths : RenameFile(p)
    \/ RaiseError
    \/ HandleError
    \/ HandleEvent
    \/ TimerFire
    \/ Tick

Spec == Init /\ [][Next]_vars

(***************************************************************************)
(* SpecWalk: the startup walk alone, from every tree and exclusion list.   *)
(***************************************************************************)
InitWalk ==
    /\ variant \in Variants
    /\ wpc = "start"
    /\ ignored \in IgnoreLists
    /\ fs \in TreesTo(MaxDepth)
    /\ mtime = [p \in Paths |-> 0]
    /\ watched = {}
    /\ events = <<>>
    /\ errors = 0
    /\ timer = NoTimer
    /\ lastMod = [p \in Paths |-> -1]
    /\ now = 0
    /\ ops = 0
    /\ log = InitLog
    /\ BroadcastIdle
    /\ PureIdle

NextWalk == Startup

SpecWalk == InitWalk /\ [][NextWalk]_vars

(***************************************************************************)
(* What the claims speak of, stated without the program's own functions.   *)
(***************************************************************************)
IsSubstring(sub, str) ==
    \E u, v \in 0..Len(str) : u + Len(sub) + v = Len(str)
                              /\ SubSeq(str, u + 1, u + Len(sub)) = sub

\* some non-empty entry of the list occurs in the string
ExcludedBy(str, list) ==
    \E k \in DOMAIN list : list[k] # <<>> /\ IsSubstring(list[k], str)

Ancestors(p) == {SubSeq(p, 1, k) : k \in 0..Len(p)}

\* the directories that are not excluded and have no excluded ancestor
ExpectedWatchSet ==
    {d \in Paths \cup {Root} :
        /\ Kind(fs, d) = "dir"
        /\ \A a \in Ancestors(d) : ~ExcludedBy(PathStr(a), ignored)}

(***************************************************************************)
(* C7                                                                      *)
(***************************************************************************)
\* C7: after watch() walked the root, the registered directories are exactly the
\* directories under the root (root included) that are not excluded and have no
\* excluded ancestor; an excluded file does not keep its later siblings from
\* being registered.
C7_StartupWatchSet == wpc = "loop" => watched = ExpectedWatchSet

\* the same statement for the revision of part_000 alone, whose callback returns
\* SkipDir for directories only
Part000_StartupWatchSet ==
    (variant = "part000" /\ wpc = "loop") => watched = ExpectedWatchSet

\* an excluded file with a later sibling directory exists and the walk is over
Part000_StartupWatchSetCase ==
    /\ variant = "part000" /\ wpc = "loop"
    /\ fs[<<"g">>] = "file" /\ fs[<<"s">>] = "dir" /\ ExcludedBy(PathStr(<<"g">>), ignored)
    /\ <<"s">> \in watched

(***************************************************************************)
(* C1                                                                      *)
(***************************************************************************)
\* what the history must show when bursts of events, the last received at `last`,
\* were each followed by exactly one notify() call Debounce after its last event
OncePerBurst(n, last) ==
    /\ n = 0 => log.fired = 0
    /\ n > 0 =>
         IF now < last + Debounce THEN log.fired = n - 1
         ELSE IF now > last + Debounce
              THEN log.fired = n /\ log.lastFire = last + Debounce
              ELSE \/ log.fired = n - 1
                   \/ log.fired = n /\ log.lastFire = now

\* C1 as claimed: every burst of non-excluded change events, each less than the
\* debounce duration after the previous one, gets exactly one notify() call, one
\* debounce duration after the last event of the burst; at most one timer is pending.
C1_DebounceNonExcluded ==
    /\ Cardinality(timer.live) <= 1
    /\ OncePerBurst(log.bursts, log.lastEv)

\* C1 amended: every burst of events that arm the timer (every non-excluded event
\* in src/main.go; in part_000 the non-excluded events whose path is an existing
\* non-directory with a modification time after the recorded one), each less than
\* the debounce duration after the previous one, gets exactly one notify() call,
\* one debounce duration after the last of them; at most one timer is pending, and
\* while the burst is open it is the timer armed by its last event.
C1_DebounceArming ==
    /\ Cardinality(timer.live) <= 1
    /\ OncePerBurst(log.abursts, log.lastArm)
    /\ (log.abursts > 0 /\ now < log.lastArm + Debounce) =>
          timer.live = {[id |-> timer.cur, due |-> log.lastArm + Debounce]}

\* a burst of two arming events was followed by its one notify() call
C1_BurstNotifiedOnce ==
    /\ log.arms >= 2 /\ log.abursts = 1 /\ log.fired = 1
    /\ now > log.lastArm + Debounce

\* C1 holds as claimed of the revisions of src/main.go
Main_DebounceNonExcluded == variant = "main" => C1_DebounceNonExcluded

(***************************************************************************)
(* C8                                                                      *)
(***************************************************************************)
\* C8: a non-excluded directory whose create event the loop received is registered,
\* and a modification of a non-excluded file created inside it afterwards (the file
\* is still there) is followed by a notify() call no later than the debounce
\* duration after the last event (that modification, or a non-excluded event the
\* loop received after it).
C8_DynamicGrowth ==
    /\ log.newDirs \subseteq watched
    /\ \A p \in log.born : Parent(p) \in watched
    /\ \A o \in log.owed :
          now <= (IF log.lastEv > o.at THEN log.lastEv ELSE o.at) + Debounce

\* a file created in a directory registered after startup was modified, and
\* notify() followed
C8_NewDirFileNotified ==
    /\ log.paid > 0
    /\ log.newDirs \ log.walked # {}

(***************************************************************************)
(* C9                                                                      *)
(***************************************************************************)
\* the event loop receives a non-excluded event in this step
ReceivesAccepted ==
    /\ events # <<>> /\ events' = Tail(events)
    /\ ~ExcludedBy(PathStr(Head(events).path), ignored)

ReceivedPath == Head(events).path

\* the step stops the held timer and arms a new one, Debounce from now
Rearms ==
    /\ timer'.cur # timer.cur
    /\ timer'.live = {[id |-> timer'.cur, due |-> now + Debounce]}

\* C9 as claimed: every non-excluded event (re)arms the timer, whatever its kind
\* and whatever its path is by now.
C9_EveryAcceptedEventArms == [][ReceivesAccepted => Rearms]_vars

\* the path still is a file and its modification time is after the recorded one
TimeAdvanced(p) ==
    /\ fs[p] = "file"
    /\ lastMod[p] = -1 \/ mtime[p] > lastMod[p]

\* C9 amended: every non-excluded event reaches the coalescer; in src/main.go it
\* (re)arms the timer whatever its kind and path; in part_000 it (re)arms the timer
\* when its path is an existing non-directory whose modification time is after the
\* recorded one, and leaves the timer alone otherwise.  A single isolated event
\* that arms the timer gets exactly one notify() call one debounce duration later.
C9_AcceptedEventArmsIfFresh ==
    /\ [][ReceivesAccepted =>
            IF variant = "main" \/ TimeAdvanced(ReceivedPath)
            THEN Rearms /\ log'.arms = log.arms + 1
            ELSE timer' = timer /\ log'.arms = log.arms]_vars
    /\ [](log.arms = 1 => OncePerBurst(1, log.lastArm))

\* a single event armed the timer and notify() was called once, Debounce later
C9_IsolatedEventNotified ==
    /\ log.accepted = 1 /\ log.arms = 1 /\ log.fired = 1
    /\ log.lastFire = log.lastEv + Debounce
    /\ now > log.lastFire

(***************************************************************************)
(* The broadcaster: reloader.add / remove / notify and the endpoint        *)
(* handlers.  The code is the same in the three revisions.                 *)
(*                                                                         *)
(* Handler h is the goroutine net/http starts for the h-th request to      *)
(* /__livereload; the channel add() makes for it is named h too.           *)
(*   "idle"          no request yet                                        *)
(*   "refused"       answered 500: the writer is no http.Flusher           *)
(*   "add"           in add(): channel made, calling r.mu.Lock()           *)
(*   "add_cs"        holds the lock, before r.clients[ch] = struct{}{}     *)
(*   "add_unlock"    before r.mu.Unlock()                                  *)
(*   "recv"          at `for range ch`                                     *)
(*   "write"         received a signal, before Fprint and Flush            *)
(*   "remove"        in the deferred remove(ch): calling r.mu.Lock()       *)
(*   "remove_cs"     holds the lock, before delete(r.clients, ch)          *)
(*   "remove_close"  before close(ch)                                      *)
(*   "remove_unlock" before r.mu.Unlock()                                  *)
(*   "done"          the handler returned                                  *)
(* Notifier n is the goroutine of the n-th fired timer, running notify().   *)
(*   "idle"   the timer has not fired                                      *)
(*   "lock"   calling r.mu.Lock()                                          *)
(*   "range"  in the loop over r.clients; the deferred Unlock runs when    *)
(*            the loop is over                                             *)
(*   "done"   notify() returned                                            *)
(***************************************************************************)
MaxConns == 2       \* requests to /__livereload in one behaviour
MaxCalls == 2       \* notify() calls in one behaviour
ChanCap == 1        \* make(chan struct{}, 1)

Handlers == 1..MaxConns
Notifiers == 1..MaxCalls

H(h) == <<"handler", h>>
N(n) == <<"notify", n>>

\* a channel that comes with a signal in it
NewChanWithSignal(h) == [buf |-> 1, closed |-> FALSE]

\* ch := make(chan struct{}, 1)
NewChan(h) == [buf |-> 0, closed |-> FALSE]

\* a plain `ch <- struct{}{}`: it waits while the channel holds n = ChanCap signals
canSendWhenRoom(n) == n < ChanCap

\* select with a default branch: the send never waits, whatever the channel holds
canSend(n) == TRUE

\* a send that always takes the default branch
TrySendDrop(n) == n

\* a send that queues without bound
TrySendQueue(n) == n + 1

\* select { case ch <- struct{}{}: default: } on an open channel holding n signals
TrySend(n) == IF n < ChanCap THEN n + 1 ELSE n

\* a remove that closes the channel and leaves it registered
removeKeeps(cl, c) == cl

\* delete(r.clients, ch)
removeDelete(cl, c) == cl \ {c}

(***************************************************************************)
(* History per handler, for the claims:                                    *)
(*   before  notify() calls that had returned when add() registered it     *)
(*   after   notify() calls that took the lock while it was registered     *)
(*   pend    sends notify() tried on its channel since its last receive    *)
(*   took    pend at its last receive                                      *)
(*   sent    sends notify() tried on its channel when pend was 0           *)
(*   flusher whether its ResponseWriter is an http.Flusher                 *)
(*   made    whether add() made a channel for it                           *)
(*   status  the status http.Error answered, 0 if none                     *)
(*   recv    signals its loop received from its channel                    *)
(***************************************************************************)
InitHist ==
    [before |-> 0, after |-> 0, pend |-> 0, took |-> 0, sent |-> 0,
     flusher |-> TRUE, made |-> FALSE, status |-> 0, recv |-> 0]

\* a loop body that writes the frame twice
writeFrameTwice(n) == n + 2

\* fmt.Fprint(w, "data: reload\n\n"); flusher.Flush(): the frames written so far, n
writeFrame(n) == n + 1

\* an endpoint that does not test for the Flusher
endpointStartNoTest(flusher) == "add"

\* flusher, ok := w.(http.Flusher); if !ok { http.Error(...); return }; ch := r.add()
endpointStart(flusher) == IF flusher THEN "add" ELSE "refused"

\* http.StatusInternalServerError
StatusInternalServerError == 500

Returned == Cardinality({n \in Notifiers : npc[n] = "done"})

InitB ==
    /\ variant = "main"
    /\ WatchIdle
    /\ PureIdle
    /\ mu = Unlocked
    /\ clients = {}
    /\ hpc = [h \in Handlers |-> "idle"]
    /\ connOpen = [h \in Handlers |-> FALSE]
    /\ chanBuf = [h \in Handlers |-> 0]
    /\ chanClosed = [h \in Handlers |-> FALSE]
    /\ closes = [h \in Handlers |-> 0]
    /\ frames = [h \in Handlers |-> 0]
    /\ npc = [n \in Notifiers |-> "idle"]
    /\ todo = [n \in Notifiers |-> {}]
    /\ calls = 0
    /\ hist = [h \in Handlers |-> InitHist]
    /\ panicked = FALSE

BFrame == <<variant, wvars, pvars>>

\* endpoint, lines 200-211: headers, the Flusher test, then add() makes the channel
Connect(h, flusher) ==
    /\ hpc[h] = "idle"
    /\ \A g \in Handlers : g < h => hpc[g] # "idle"
    /\ connOpen' = [connOpen EXCEPT ![h] = TRUE]
    /\ hpc' = [hpc EXCEPT ![h] = endpointStart(flusher)]
    /\ IF endpointStart(flusher) = "add"
       THEN /\ chanBuf' = [chanBuf EXCEPT ![h] = NewChan(h).buf]
            /\ chanClosed' = [chanClosed EXCEPT ![h] = NewChan(h).closed]
            /\ hist' = [hist EXCEPT ![h].flusher = flusher, ![h].made = TRUE]
       ELSE /\ hist' = [hist EXCEPT ![h].flusher = flusher,
                                    ![h].status = StatusInternalServerError]
            /\ UNCHANGED <<chanBuf, chanClosed>>
    /\ UNCHANGED <<mu, clients, closes, frames, npc, todo, calls, panicked, BFrame>>

\* add: r.mu.Lock()
AddLock(h) ==
    /\ hpc[h] = "add"
    /\ mu = Unlocked
    /\ mu' = H(h)
    /\ hpc' = [hpc EXCEPT ![h] = "add_cs"]
    /\ UNCHANGED <<clients, connOpen, chanBuf, chanClosed, closes, frames, npc, todo, calls,
                   hist, panicked, BFrame>>

\* add: r.clients[ch] = struct{}{}
AddInsert(h) ==
    /\ hpc[h] = "add_cs"
    /\ clients' = clients \cup {h}
    /\ hpc' = [hpc EXCEPT ![h] = "add_unlock"]
    /\ hist' = [hist EXCEPT ![h].before = Returned]
    /\ UNCHANGED <<mu, connOpen, chanBuf, chanClosed, closes, frames, npc, todo, calls,
                   panicked, BFrame>>

\* add: r.mu.Unlock(); return ch; endpoint: defer r.remove(ch); for range ch
AddUnlock(h) ==
    /\ hpc[h] = "add_unlock"
    /\ mu' = Unlocked
    /\ hpc' = [hpc EXCEPT ![h] = "recv"]
    /\ UNCHANGED <<clients, connOpen, chanBuf, chanClosed, closes, frames, npc, todo, calls,
                   hist, panicked, BFrame>>

\* for range ch: a signal is received, or the channel is closed and the loop ends
Recv(h) ==
    /\ hpc[h] = "recv"
    /\ chanBuf[h] > 0 \/ chanClosed[h]
    /\ IF chanBuf[h] > 0
       THEN /\ chanBuf' = [chanBuf EXCEPT ![h] = @ - 1]
            /\ hpc' = [hpc EXCEPT ![h] = "write"]
            /\ hist' = [hist EXCEPT ![h].took = hist[h].pend, ![h].pend = 0,
                                    ![h].recv = @ + 1]
       ELSE /\ hpc' = [hpc EXCEPT ![h] = "remove"]
            /\ UNCHANGED <<chanBuf, hist>>
    /\ UNCHANGED <<mu, clients, connOpen, chanClosed, closes, frames, npc, todo, calls,
                   panicked, BFrame>>

\* fmt.Fprint(w, "data: reload\n\n"); flusher.Flush() -- the error of a write to a
\* connection the peer closed is not looked at
Write(h) ==
    /\ hpc[h] = "write"
    /\ frames' = [frames EXCEPT ![h] = writeFrame(@)]
    /\ hpc' = [hpc EXCEPT ![h] = "recv"]
    /\ UNCHANGED <<mu, clients, connOpen, chanBuf, chanClosed, closes, npc, todo, calls,
                   hist, panicked, BFrame>>

\* the peer disconnects or navigates away
Disconnect(h) ==
    /\ hpc[h] \notin {"idle", "refused", "done"}
    /\ connOpen[h]
    /\ connOpen' = [connOpen EXCEPT ![h] = FALSE]
    /\ UNCHANGED <<mu, clients, hpc, chanBuf, chanClosed, closes, frames, npc, todo, calls,
                   hist, panicked, BFrame>>

\* a fired timer starts its function: r.notify()
NotifyCall(n) ==
    /\ npc[n] = "idle"
    /\ \A m \in Notifiers : m < n => npc[m] # "idle"
    /\ calls' = calls + 1
    /\ npc' = [npc EXCEPT ![n] = "lock"]
    /\ UNCHANGED <<mu, clients, hpc, connOpen, chanBuf, chanClosed, closes, frames, todo,
                   hist, panicked, BFrame>>

\* notify: r.mu.Lock(); defer r.mu.Unlock(); the range over r.clients starts
NotifyLock(n) ==
    /\ npc[n] = "lock"
    /\ mu = Unlocked
    /\ mu' = N(n)
    /\ npc' = [npc EXCEPT ![n] = "range"]
    /\ todo' = [todo EXCEPT ![n] = clients]
    /\ hist' = [h \in Handlers |->
                  IF h \in clients THEN [hist[h] EXCEPT !.after = @ + 1] ELSE hist[h]]
    /\ UNCHANGED <<clients, hpc, connOpen, chanBuf, chanClosed, closes, frames, calls,
                   panicked, BFrame>>

\* notify: select { case ch <- struct{}{}: default: } for one channel of the map
NotifySend(n, c) ==
    /\ npc[n] = "range"
    /\ c \in todo[n]
    /\ canSend(chanBuf[c])
    /\ todo' = [todo EXCEPT ![n] = @ \ {c}]
    /\ IF chanClosed[c]
       THEN /\ panicked' = TRUE          \* send on closed channel
            /\ UNCHANGED <<chanBuf, hist>>
       ELSE /\ chanBuf' = [chanBuf EXCEPT ![c] = TrySend(@)]
            /\ hist' = [hist EXCEPT ![c].pend = @ + 1,
                                    ![c].sent = IF hist[c].pend = 0 THEN @ + 1 ELSE @]
            /\ UNCHANGED panicked
    /\ UNCHANGED <<mu, clients, hpc, connOpen, chanClosed, closes, frames, npc, calls,
                   BFrame>>

\* notify: the loop is over, the deferred r.mu.Unlock() runs
NotifyUnlock(n) ==
    /\ npc[n] = "range"
    /\ todo[n] = {}
    /\ mu' = Unlocked
    /\ npc' = [npc EXCEPT ![n] = "done"]
    /\ UNCHANGED <<clients, hpc, connOpen, chanBuf, chanClosed, closes, frames, todo, calls,
                   hist, panicked, BFrame>>

HandlerStep(h) ==
    \/ AddLock(h)
    \/ AddInsert(h)
    \/ AddUnlock(h)
    \/ Recv(h)
    \/ Write(h)

NotifierStep(n) ==
    \/ NotifyLock(n)
    \/ \E c \in Handlers : NotifySend(n, c)
    \/ NotifyUnlock(n)

NextB ==
    \/ \E h \in Handlers, flusher \in BOOLEAN : Connect(h, flusher)
    \/ \E h \in Handlers : AddLock(h)
    \/ \E h \in Handlers : AddInsert(h)
    \/ \E h \in Handlers : AddUnlock(h)
    \/ \E h \in Handlers : Recv(h)
    \/ \E h \in Handlers : Write(h)
    \/ \E h \in Handlers : Disconnect(h)
    \/ \E n \in Notifiers : NotifyCall(n)
    \/ \E n \in Notifiers : NotifyLock(n)
    \/ \E n \in Notifiers, c \in Handlers : NotifySend(n, c)
    \/ \E n \in Notifiers : NotifyUnlock(n)

\* the program as net/http runs it: a write to a closed connection returns an error
SpecBroadcast == InitB /\ [][NextB]_vars

\* every goroutine that can take a step eventually takes one
FairBroadcast ==
    /\ SpecBroadcast
    /\ \A h \in Handlers : WF_vars(HandlerStep(h))
    /\ \A n \in Notifiers : WF_vars(NotifierStep(n))

\* FairBroadcast with the peers staying connected: no goroutine reads connOpen
NextStream ==
    \/ \E h \in Handlers, flusher \in BOOLEAN : Connect(h, flusher)
    \/ \E h \in Handlers : HandlerStep(h)
    \/ \E n \in Notifiers : NotifyCall(n)
    \/ \E n \in Notifiers : NotifierStep(n)

FairStream ==
    /\ InitB
    /\ [][NextStream]_vars
    /\ \A h \in Handlers : WF_vars(HandlerStep(h))
    /\ \A n \in Notifiers : WF_vars(NotifierStep(n))

(***************************************************************************)
(* The deferred remove(ch).  The loop `for range ch` ends only when ch is  *)
(* closed, and only remove(ch) closes it, so the deferred call runs only   *)
(* when the handler unwinds from inside the loop body (a ResponseWriter    *)
(* that panics in Write or Flush).  SpecReloader adds that environment;    *)
(* it leaves out Disconnect, which no goroutine reads.                     *)
(***************************************************************************)
Unwind(h) ==
    /\ hpc[h] = "write"
    /\ hpc' = [hpc EXCEPT ![h] = "remove"]
    /\ UNCHANGED <<mu, clients, connOpen, chanBuf, chanClosed, closes, frames, npc, todo,
                   calls, hist, panicked, BFrame>>

\* remove: r.mu.Lock()
RemoveLock(h) ==
    /\ hpc[h] = "remove"
    /\ mu = Unlocked
    /\ mu' = H(h)
    /\ hpc' = [hpc EXCEPT ![h] = "remove_cs"]
    /\ UNCHANGED <<clients, connOpen, chanBuf, chanClosed, closes, frames, npc, todo, calls,
                   hist, panicked, BFrame>>

\* remove: delete(r.clients, ch)
RemoveDelete(h) ==
    /\ hpc[h] = "remove_cs"
    /\ clients' = removeDelete(clients, h)
    /\ hpc' = [hpc EXCEPT ![h] = "remove_close"]
    /\ UNCHANGED <<mu, connOpen, chanBuf, chanClosed, closes, frames, npc, todo, calls,
                   hist, panicked, BFrame>>

\* remove: close(ch)
RemoveClose(h) ==
    /\ hpc[h] = "remove_close"
    /\ chanClosed' = [chanClosed EXCEPT ![h] = TRUE]
    /\ closes' = [closes EXCEPT ![h] = @ + 1]
    /\ panicked' = (panicked \/ chanClosed[h])     \* close of closed channel
    /\ hpc' = [hpc EXCEPT ![h] = "remove_unlock"]
    /\ UNCHANGED <<mu, clients, connOpen, chanBuf, frames, npc, todo, calls, hist, BFrame>>

\* remove: r.mu.Unlock(); the handler returns
RemoveUnlock(h) ==
    /\ hpc[h] = "remove_unlock"
    /\ mu' = Unlocked
    /\ hpc' = [hpc EXCEPT ![h] = "done"]
    /\ UNCHANGED <<clients, connOpen, chanBuf, chanClosed, closes, frames, npc, todo, calls,
                   hist, panicked, BFrame>>

RemoveStep(h) ==
    \/ RemoveLock(h)
    \/ RemoveDelete(h)
    \/ RemoveClose(h)
    \/ RemoveUnlock(h)

NextR ==
    \/ \E h \in Handlers, flusher \in BOOLEAN : Connect(h, flusher)
    \/ \E h \in Handlers : HandlerStep(h)
    \/ \E n \in Notifiers : NotifyCall(n)
    \/ \E n \in Notifiers : NotifierStep(n)
    \/ \E h \in Handlers : Unwind(h)
    \/ \E h \in Handlers : RemoveStep(h)

SpecReloader == InitB /\ [][NextR]_vars

\* every goroutine that can take a step eventually takes one
FairReloader ==
    /\ SpecReloader
    /\ \A h \in Handlers : WF_vars(HandlerStep(h)) /\ WF_vars(RemoveStep(h))
    /\ \A n \in Notifiers : WF_vars(NotifierStep(n))

(***************************************************************************)
(* Claims about the broadcaster.                                           *)
(***************************************************************************)
InFlight(h) == chanBuf[h] + (IF hpc[h] = "write" THEN 1 ELSE 0)

\* C2: a client that disconnected while registered is eventually deleted from
\* reloader.clients and its channel closed (checked under FairBroadcast)
C2_DisconnectedClientRemoved ==
    \A h \in Handlers :
        (h \in clients /\ ~connOpen[h]) ~> (h \notin clients /\ chanClosed[h])

\* under SpecBroadcast no step takes a channel out of reloader.clients or closes it,
\* whether its peer is connected or not and however many notify() calls follow
Broadcast_NeverRemoved ==
    [][\A h \in Handlers : h \in clients => (h \in clients' /\ ~chanClosed'[h])]_vars

\* C3: a channel holds at most one signal; it holds one exactly when notify() tried
\* a send since the handler's last receive, however many sends that were; and the
\* frames written plus the signals under way are one per such run of sends
C3_SingleSlot ==
    \A h \in Handlers :
        /\ chanBuf[h] <= 1
        /\ chanBuf[h] = (IF hist[h].pend > 0 THEN 1 ELSE 0)
        /\ frames[h] + InFlight(h) = hist[h].sent

\* two notify() calls sent before the handler received, and one frame came of them
C3_TwoNotifiesOneFrame ==
    \E h \in Handlers :
        /\ hist[h].took >= 2
        /\ frames[h] = 1
        /\ hpc[h] = "recv" /\ chanBuf[h] = 0
        /\ \A n \in Notifiers : npc[n] \in {"idle", "done"}

CritHandlers ==
    {h \in Handlers :
        hpc[h] \in {"add_cs", "add_unlock", "remove_cs", "remove_close", "remove_unlock"}}

CritNotifiers == {n \in Notifiers : npc[n] = "range"}

\* C4: at most one goroutine is inside a critical section of add, remove or notify;
\* every channel in reloader.clients is open; the channels notify() still has to
\* visit are registered; no channel is closed twice; nothing panicked
C4_BroadcasterSafety ==
    /\ Cardinality(CritHandlers) + Cardinality(CritNotifiers) <= 1
    /\ \A c \in clients : ~chanClosed[c]
    /\ \A n \in Notifiers : todo[n] \subseteq clients
    /\ \A h \in Handlers : closes[h] <= 1
    /\ ~panicked

\* a remove() holds the lock while a notify() and an add() wait for it
C4_ThreeContend ==
    \E h, g \in Handlers, n \in Notifiers :
        /\ hpc[h] \in {"remove_cs", "remove_close"}
        /\ hpc[g] = "add"
        /\ npc[n] = "lock"

\* C10: a channel is empty and has no frame until add() has registered it and let
\* go of the lock; the frames written and signals under way for a client are at most
\* the notify() calls that took the lock while it was registered, and none of those
\* is a call that had returned before the registration
C10_NoReplay ==
    \A h \in Handlers :
        /\ hpc[h] \in {"add", "add_cs", "add_unlock"} => (chanBuf[h] = 0 /\ frames[h] = 0)
        /\ frames[h] + InFlight(h) <= hist[h].after
        /\ hist[h].after + hist[h].before <= calls

\* a client registered after a notify() had returned got its first frame from the
\* one notify() that ran after the registration
C10_FirstFrameFromLaterNotify ==
    \E h \in Handlers :
        /\ hist[h].before >= 1
        /\ hist[h].after = 1
        /\ frames[h] = 1

(***************************************************************************)
(* SpecIgnore: the exclusion filter alone, on every path and list within   *)
(* the bounds.  Paths and entries are strings over Names.                  *)
(***************************************************************************)
MaxPathLen == 3     \* characters in a path
MaxEntryLen == 2    \* characters in an entry of the list
MaxListLen == 2     \* entries in the list

InitIgnore ==
    /\ variant = "main"
    /\ RootIdle
    /\ WatchIdle
    /\ BroadcastIdle
    /\ fpc = "input"
    /\ inPath \in SeqsUpTo(Names, MaxPathLen)
    /\ inList \in SeqsUpTo(SeqsUpTo(Names, MaxEntryLen), MaxListLen)
    /\ outIgnored = FALSE
    /\ outExcluded = FALSE
    /\ inDoc = <<>>
    /\ outDoc = <<>>

\* a call of isIgnored(path, ignored) and of isExcluded(path, excludes)
CheckPath ==
    /\ fpc = "input"
    /\ fpc' = "done"
    /\ outIgnored' = isIgnored(inPath, inList)
    /\ outExcluded' = isExcluded(inPath, inList)
    /\ UNCHANGED <<variant, wvars, bvars, inPath, inList, inDoc, outDoc, rvars>>

NextIgnore == CheckPath

SpecIgnore == InitIgnore /\ [][NextIgnore]_vars

\* C5: the filter answers true exactly when some non-empty entry of the list occurs
\* in the path
C5_ExclusionPredicate ==
    fpc = "done" =>
        /\ outIgnored <=> ExcludedBy(inPath, inList)
        /\ outExcluded <=> ExcludedBy(inPath, inList)

\* a list of empty strings only, as the split of an empty flag value, excluded nothing
C5_EmptyEntriesExcludeNothing ==
    /\ fpc = "done"
    /\ inPath # <<>>
    /\ inList # <<>> /\ \A k \in DOMAIN inList : inList[k] = <<>>
    /\ ~outIgnored /\ ~outExcluded

(***************************************************************************)
(* SpecInject: injectReload alone, on every document within the bound.     *)
(* Documents are strings over the characters of the anchor and the         *)
(* snippet.  The snippet is shortened to three characters: like the real   *)
(* ones it starts with "<", ends with ">", has no proper prefix that is    *)
(* also a suffix, and does not contain the anchor.                         *)
(***************************************************************************)
MaxDocLen == 6      \* characters in a document

Snippet == <<"<", "s", ">">>

\* "</body>" in main.go, "<head>" in part_000
Anchor(v) == IF v = "main" THEN <<"<", "b", ">">> ELSE <<"<", "h", ">">>

DocChars(v) == {"<", ">", "s", Anchor(v)[2]}

\* bytes.Replace(s, old, new, n): the first n occurrences of old, all if n < 0
RECURSIVE Replace(_, _, _, _)
Replace(s, old, new, n) ==
    LET i == Index(s, old)
    IN  IF n = 0 \/ i < 0 THEN s
        ELSE SubSeq(s, 1, i) \o new
             \o Replace(SubSeq(s, i + Len(old) + 1, Len(s)), old, new, n - 1)

\* what replaces the anchor: snippet then "</body>", or "<head>" then snippet
Replacement(v) == IF v = "main" THEN Snippet \o Anchor(v) ELSE Anchor(v) \o Snippet

\* an injectReload that replaces every anchor
injectReloadEvery(v, html) ==
    IF Contains(html, Anchor(v))
    THEN Replace(html, Anchor(v), Replacement(v), -1)
    ELSE html \o Snippet

injectReload(v, html) ==
    IF Contains(html, Anchor(v))
    THEN Replace(html, Anchor(v), Replacement(v), 1)
    ELSE html \o Snippet

InitInject ==
    /\ variant \in Variants
    /\ RootIdle
    /\ WatchIdle
    /\ BroadcastIdle
    /\ fpc = "input"
    /\ inPath = <<>>
    /\ inList = <<>>
    /\ outIgnored = FALSE
    /\ outExcluded = FALSE
    /\ inDoc \in SeqsUpTo(DocChars(variant), MaxDocLen)
    /\ outDoc = <<>>

\* newRootFunc: w.Write(injectReload(data))
ServeHTML ==
    /\ fpc = "input"
    /\ fpc' = "done"
    /\ outDoc' = injectReload(variant, inDoc)
    /\ UNCHANGED <<variant, wvars, bvars, inPath, inList, outIgnored, outExcluded, inDoc,
                   rvars>>

NextInject == ServeHTML

SpecInject == InitInject /\ [][NextInject]_vars

\* the places where sub occurs in s
Occurrences(s, sub) ==
    {i \in 1..(Len(s) - Len(sub) + 1) : SubSeq(s, i, i + Len(sub) - 1) = sub}

CountOcc(s, sub) == Cardinality(Occurrences(s, sub))

\* the document with x put in at place k (after the first k characters)
InsertAt(s, k, x) == SubSeq(s, 1, k) \o x \o SubSeq(s, k + 1, Len(s))

\* C6: a document without the snippet comes out with exactly one snippet: next to
\* the first anchor when there is one (before "</body>", after "<head>"), and at
\* the end when there is none; nothing else of the document changes
C6_OneSnippet ==
    (fpc = "done" /\ CountOcc(inDoc, Snippet) = 0) =>
        /\ CountOcc(outDoc, Snippet) = 1
        /\ LET at == Occurrences(inDoc, Anchor(variant))
           IN  IF at = {}
               THEN outDoc = inDoc \o Snippet
               ELSE \E i \in at :
                       /\ \A j \in at : i <= j
                       /\ outDoc = InsertAt(inDoc,
                                            IF variant = "main" THEN i - 1
                                            ELSE i - 1 + Len(Anchor(variant)),
                                            Snippet)

\* a document with two anchors and no snippet came out with one snippet
C6_TwoAnchorsOneSnippet ==
    /\ fpc = "done"
    /\ CountOcc(inDoc, Snippet) = 0
    /\ CountOcc(inDoc, Anchor(variant)) >= 2
    /\ CountOcc(outDoc, Snippet) = 1

(***************************************************************************)
(* SpecRoot: the root handler (newRootFunc) alone, on every request path   *)
(* within the bound and everything os.Stat and os.ReadFile may find for    *)
(* it.  A name is a string cut into pieces that keep ".html" whole; the    *)
(* code is the same in the three revisions but for injectReload.           *)
(***************************************************************************)
MaxReqDepth == 2    \* names in a request path

IndexName == <<"index", ".html">>

FileNames == {<<"d">>, <<"p", ".html">>, <<"p", ".html", "~">>, IndexName}

\* strings.HasSuffix
HasSuffix(str, suffix) ==
    /\ Len(str) >= Len(suffix)
    /\ SubSeq(str, Len(str) - Len(suffix) + 1, Len(str)) = suffix

\* filepath.Join(base, names...)
RECURSIVE JoinPath(_, _)
JoinPath(base, names) ==
    IF names = <<>> THEN base
    ELSE JoinPath(base \o <<"/">> \o Head(names), Tail(names))

\* the two os.Stat of a directory and of index.html in it, lines 145-155: the
\* path, the req.URL.Path and the kind the last os.Stat (line 157) finds
rootResolve(d, r) ==
    IF d.req = "dir" /\ d.index # "none"
    THEN [path |-> JoinPath(RootStr, Append(r, IndexName)),
          url |-> Append(r, IndexName), kind |-> d.index]
    ELSE [path |-> JoinPath(RootStr, r), url |-> r, kind |-> d.req]

\* a test that forgot the suffix
isHTMLFileAnyName(kind, path) == kind = "file"

\* err == nil && !info.IsDir() && strings.HasSuffix(path, ".html")
isHTMLFile(kind, path) == kind = "file" /\ HasSuffix(path, <<".html">>)

\* the handler newRootFunc returns; what http.FileServer answers is left out
rootFunc(v, d, r, data) ==
    LET t == rootResolve(d, r)
    IN  IF isHTMLFile(t.kind, t.path) /\ d.readable
        THEN [by |-> "inject", ctype |-> "text/html", body |-> injectReload(v, data),
              url |-> t.url]
        ELSE [by |-> "static", ctype |-> "", body |-> <<>>, url |-> t.url]

\* the kind of the file the request ends at
StatLast(d) == IF d.req = "dir" /\ d.index # "none" THEN d.index ELSE d.req

Disks ==
    {d \in [req : Kinds, index : Kinds, readable : BOOLEAN] :
        /\ d.index # "none" => d.req = "dir"
        /\ d.readable => StatLast(d) = "file"}

InitRoot ==
    /\ variant \in Variants
    /\ WatchIdle
    /\ BroadcastIdle
    /\ fpc = "input"
    /\ inPath = <<>>
    /\ inList = <<>>
    /\ outIgnored = FALSE
    /\ outExcluded = FALSE
    /\ req \in SeqsUpTo(FileNames, MaxReqDepth)
    /\ disk \in {d \in Disks : req = <<>> => d.req = "dir"}
    /\ inDoc \in {x \in {<<>>, <<"s">>, Anchor(variant)} : x # <<>> => StatLast(disk) = "file"}
    /\ outDoc = <<>>
    /\ resp = NoResp

\* one request to "/"
ServeRoot ==
    /\ fpc = "input"
    /\ fpc' = "done"
    /\ resp' = rootFunc(variant, disk, req, inDoc)
    /\ UNCHANGED <<variant, wvars, bvars, inPath, inList, outIgnored, outExcluded, inDoc,
                   outDoc, req, disk>>

NextRoot == ServeRoot

SpecRoot == InitRoot /\ [][NextRoot]_vars

\* the request ends at an existing non-directory whose name ends in ".html": the
\* requested path itself, or index.html in the requested directory
TargetIsHTMLFile ==
    \/ /\ disk.req = "file"
       /\ req # <<>>
       /\ LET name == req[Len(req)] IN name[Len(name)] = ".html"
    \/ disk.req = "dir" /\ disk.index = "file"

InjectedAnswer ==
    /\ resp.by = "inject"
    /\ resp.ctype = "text/html"
    /\ resp.body = injectReload(variant, inDoc)

StaticAnswer == resp.by = "static" /\ resp.body = <<>>

\* C11 as stated: an existing .html file is answered with the injected bytes and not
\* by the file server; everything else by the file server and not by injectReload
C11_HtmlRouting ==
    fpc = "done" => IF TargetIsHTMLFile THEN InjectedAnswer ELSE StaticAnswer

\* C11: an existing .html file that os.ReadFile can read is answered with the
\* injected bytes as text/html and not by the file server; everything else, an
\* unreadable .html file included, goes to the file server and not to injectReload
C11_HtmlRoutingReadable ==
    fpc = "done" =>
        IF TargetIsHTMLFile /\ disk.readable THEN InjectedAnswer ELSE StaticAnswer

\* a request for a directory below the root was answered with its injected index.html
C11_DirectoryIndexInjected ==
    /\ fpc = "done"
    /\ req # <<>>
    /\ disk.req = "dir" /\ disk.index = "file"
    /\ inDoc = Anchor(variant)
    /\ InjectedAnswer
    /\ resp.url = Append(req, IndexName)

\* C12: a handler whose writer is no http.Flusher answers 500 and is over: no
\* channel is made for it, it is never registered, never takes the lock, writes no
\* frame, and its request leaves reloader.clients as it was
C12_StreamingUnsupported ==
    /\ [](\A h \in Handlers :
            (hpc[h] # "idle" /\ ~hist[h].flusher) =>
                /\ hpc[h] = "refused"
                /\ hist[h].status = StatusInternalServerError
                /\ ~hist[h].made
                /\ h \notin clients
                /\ mu # H(h)
                /\ frames[h] = 0)
    /\ [][\A h \in Handlers :
            (hpc[h] = "idle" /\ hpc'[h] # "idle" /\ ~hist'[h].flusher) =>
                (clients' = clients /\ mu' = mu /\ chanBuf' = chanBuf)]_vars

\* a request was refused while another client was registered, and notify() ran since
C12_RefusedBesideClient ==
    \E h, g \in Handlers :
        /\ hpc[h] = "refused"
        /\ hist[h].status = StatusInternalServerError
        /\ g \in clients
        /\ hist[g].after >= 1

NotifyReturns(n) == npc[n] = "range" /\ npc'[n] = "done"

\* C13 as stated: when a notify() call returns, every registered client has a signal
\* pending in its channel
C13_PendingAtReturn ==
    [][\A n \in Notifiers :
          NotifyReturns(n) => \A c \in clients' : chanBuf'[c] = 1]_vars

SendsTo(n, c) == npc[n] = "range" /\ c \in todo[n] /\ c \notin todo'[n]

\* C13: right after notify() tried its send to a client, a signal is pending in the
\* client's channel; a signal leaves the channel only into the handler's loop body,
\* which the handler leaves only with one more frame written; and with every
\* goroutine scheduled, the channel is emptied and the loop body left again and again
C13_NoLostReload ==
    /\ [][\A n \in Notifiers, c \in Handlers : SendsTo(n, c) => chanBuf'[c] = 1]_vars
    /\ [][\A h \in Handlers :
            /\ chanBuf'[h] < chanBuf[h] => (hpc[h] = "recv" /\ hpc'[h] = "write")
            /\ (hpc[h] = "write" /\ hpc'[h] # "write") => frames'[h] = frames[h] + 1]_vars
    /\ \A h \in Handlers : []<>(chanBuf[h] = 0) /\ []<>(hpc[h] # "write")

\* a client's frame for a notify() call was written while that call was still in
\* its loop, so that its channel is empty when the call returns
C13_FrameBeforeReturn ==
    \E n \in Notifiers, h \in Handlers :
        /\ npc[n] = "range"
        /\ h \in clients /\ h \notin todo[n]
        /\ hist[h].after = 1 /\ hist[h].sent = 1
        /\ frames[h] = 1 /\ chanBuf[h] = 0

\* C14: the frames a handler wrote, with the one it is writing, are one per signal
\* it received; they are at most the notify() calls that took the lock while the
\* client was registered, and none if there was no such call
C14_FrameAccounting ==
    \A h \in Handlers :
        /\ frames[h] + (IF hpc[h] = "write" THEN 1 ELSE 0) = hist[h].recv
        /\ frames[h] <= hist[h].after
        /\ hist[h].after = 0 => frames[h] = 0

\* a client received two signals of two notify() calls and wrote two frames
C14_TwoSignalsTwoFrames ==
    \E h \in Handlers :
        /\ hist[h].after = 2
        /\ hist[h].recv = 2
        /\ frames[h] = 2

\* C15: when the event loop has received every event, every directory under the
\* root that is not excluded and has no excluded ancestor is registered
C15_WatchSetTracksTree ==
    (wpc = "loop" /\ events = <<>>) => ExpectedWatchSet \subseteq watched

\* the same for the part_000 revision alone
Part000_WatchSetTracksTree == variant = "part000" => C15_WatchSetTracksTree

\* part_000: a directory made inside a new directory before the loop registered the
\* new directory is registered all the same
Part000_NestedDirRegistered ==
    /\ variant = "part000"
    /\ wpc = "loop" /\ events = <<>>
    /\ \E p \in watched : Len(p) = 2 /\ Parent(p) \in log.newDirs /\ p \notin log.newDirs

\* the event loop receives an excluded event in this step
ReceivesExcluded ==
    /\ events # <<>> /\ events' = Tail(events)
    /\ ExcludedBy(PathStr(Head(events).path), ignored)

\* C16: receiving an excluded event leaves the watch set, the timer (held timer and
\* pending ones, with their times), lastMod and the client set as they were; and
\* as long as no non-excluded event was received no timer exists and notify() was
\* not called
C16_ExcludedNoEffect ==
    /\ [][ReceivesExcluded =>
            /\ watched' = watched
            /\ timer' = timer
            /\ lastMod' = lastMod
            /\ clients' = clients
            /\ log'.fired = log.fired]_vars
    /\ [](log.accepted = 0 => (timer = NoTimer /\ log.fired = 0))

\* an excluded event was received while a timer was pending, and the one notify()
\* came one debounce duration after the event that armed the timer
C16_PendingSurvivesExcluded ==
    /\ log.dropArmed
    /\ log.arms = 1
    /\ log.fired = 1
    /\ log.lastFire = log.lastArm + Debounce

\* the event loop receives a watcher error in this step
ReceivesError == errors > 0 /\ errors' = errors - 1

\* C18: receiving a watcher error leaves the watch set, the timer, lastMod and the
\* client set as they were and the loop running; and after an error a non-excluded
\* event still arms the timer (in part_000: when its path passes the filter of
\* watchState.trigger)
C18_ErrorsNonFatal ==
    /\ [][ReceivesError =>
            /\ wpc' = "loop"
            /\ watched' = watched
            /\ timer' = timer
            /\ lastMod' = lastMod
            /\ clients' = clients
            /\ events' = events]_vars
    /\ [][(log.errs > 0 /\ ReceivesAccepted
           /\ (variant = "main" \/ TimeAdvanced(ReceivedPath))) => Rearms]_vars

\* an event received after a watcher error armed the timer, and notify() came one
\* debounce duration later
C18_NotifiedAfterError ==
    /\ log.errArm
    /\ log.errs >= 1
    /\ log.arms = 1
    /\ log.fired = 1
    /\ log.lastFire = log.lastArm + Debounce

\* C17: the lock is held only by a goroutine inside add, remove or notify, and that
\* goroutine can always take its next step by itself: notify() can try its send to
\* every channel left to visit whatever the channel holds and whatever its handler
\* does, and can unlock when none is left
C17_LockHolderNeverBlocked ==
    /\ \A h \in Handlers :
          /\ mu = H(h) <=> h \in CritHandlers
          /\ h \in CritHandlers => ENABLED (HandlerStep(h) \/ RemoveStep(h))
    /\ \A n \in Notifiers :
          /\ mu = N(n) <=> n \in CritNotifiers
          /\ n \in CritNotifiers =>
                /\ \A c \in todo[n] : ENABLED NotifySend(n, c)
                /\ todo[n] = {} => ENABLED NotifyUnlock(n)

\* with every goroutine scheduled, each call of add, remove and notify comes to its
\* end (under FairReloader)
Reloader_LockedCallsComplete ==
    /\ \A h \in Handlers :
          /\ (hpc[h] \in {"add", "add_cs", "add_unlock"}) ~> (hpc[h] = "recv")
          /\ (hpc[h] \in {"remove", "remove_cs", "remove_close", "remove_unlock"})
                ~> (hpc[h] = "done")
    /\ \A n \in Notifiers : (npc[n] \in {"lock", "range"}) ~> (npc[n] = "done")

\* notify() holds the lock with a channel left to visit, every registered channel
\* is full (no handler received the signal of the call before), and an add() waits
\* for the lock
C17_FullBuffersLockWaited ==
    \E n \in Notifiers, g \in Handlers :
        /\ npc[n] = "range" /\ todo[n] # {}
        /\ \A c \in clients : chanBuf[c] = ChanCap
        /\ hpc[g] = "add"

\* C19 (part_000): a non-excluded event arms the timer and records the path's
\* modification time when the path is an existing non-directory whose modification
\* time is after the recorded one, or has none recorded; otherwise timer and
\* lastMod stay as they are, so that an event for a file whose recorded time is its
\* modification time arms nothing.  No recorded time ever decreases, and notify()
\* is called at most once per arming event.
C19_ModTimeFilter ==
    /\ [][(variant = "part000" /\ ReceivesAccepted) =>
            LET p == ReceivedPath
            IN  IF fs[p] = "file" /\ (lastMod[p] = -1 \/ mtime[p] > lastMod[p])
                THEN /\ Rearms
                     /\ lastMod' = [lastMod EXCEPT ![p] = mtime[p]]
                ELSE /\ timer' = timer
                     /\ lastMod' = lastMod]_vars
    /\ [][\A p \in Paths : lastMod'[p] >= lastMod[p]]_vars
    /\ [](variant = "part000" => log.fired <= log.arms)

\* part_000: two events came for one file with one modification time (the file was
\* created and written within one tick of its clock); the first armed the timer,
\* the second did not, and notify() was called once
C19_StaleEventOneNotify ==
    /\ variant = "part000"
    /\ ops = 2 /\ events = <<>>
    /\ \E p \in Paths :
          /\ fs[p] = "file" /\ lastMod[p] = mtime[p]
          /\ \A q \in Paths \ {p} : fs[q] = "none" \/ ExcludedBy(PathStr(q), ignored)
    /\ log.accepted = 2
    /\ log.arms = 1
    /\ log.fired = 1

(***************************************************************************)
(* SpecLive: the watcher and the broadcaster together, with every handler  *)
(* of Handlers registered and in its receive loop before the first change. *)
(* No add() or remove() runs here, so nobody contends for reloader.mu and  *)
(* a fired timer's notify() is one step: lock, one send per registered     *)
(* channel, unlock.                                                        *)
(***************************************************************************)
InitLive ==
    /\ variant \in Variants
    /\ wpc = "start"
    /\ ignored = << <<"g">> >>
    /\ fs = [p \in Paths |-> "none"]
    /\ mtime = [p \in Paths |-> 0]
    /\ watched = {}
    /\ events = <<>>
    /\ errors = 0
    /\ timer = NoTimer
    /\ lastMod = [p \in Paths |-> -1]
    /\ now = 0
    /\ ops = 0
    /\ log = InitLog
    /\ PureIdle
    /\ mu = Unlocked
    /\ clients = {1}
    /\ hpc = [h \in Handlers |-> IF h = 1 THEN "recv" ELSE "idle"]
    /\ connOpen = [h \in Handlers |-> h = 1]
    /\ chanBuf = [h \in Handlers |-> 0]
    /\ chanClosed = [h \in Handlers |-> FALSE]
    /\ closes = [h \in Handlers |-> 0]
    /\ frames = [h \in Handlers |-> 0]
    /\ npc = [n \in Notifiers |-> "idle"]
    /\ todo = [n \in Notifiers |-> {}]
    /\ calls = 0
    /\ hist = [h \in Handlers |-> [InitHist EXCEPT !.made = (h = 1)]]
    /\ panicked = FALSE

\* the function of a fired timer: r.notify(), from Lock to the deferred Unlock
TimerNotify ==
    /\ TimerExpires
    /\ mu = Unlocked
    /\ chanBuf' = [c \in Handlers |->
                     IF c \in clients /\ canSend(chanBuf[c]) THEN TrySend(chanBuf[c])
                     ELSE chanBuf[c]]
    /\ hist' = [c \in Handlers |->
                  IF c \in clients
                  THEN [hist[c] EXCEPT !.after = @ + 1, !.pend = @ + 1,
                                       !.sent = IF hist[c].pend = 0 THEN @ + 1 ELSE @]
                  ELSE hist[c]]
    /\ calls' = calls + 1
    /\ UNCHANGED <<mu, clients, hpc, connOpen, chanClosed, closes, frames, npc, todo,
                   panicked, pvars>>

NextLive ==
    \/ Startup
    \/ \E p \in Paths : Mkdir(p)
    \/ \E p \in Paths : CreateFile(p)
    \/ \E p \in Paths : WriteFile(p)
    \/ \E p \in Paths : RemoveFile(p)
    \/ \E p \in Paths : RenameFile(p)
    \/ RaiseError
    \/ HandleError
    \/ HandleEvent
    \/ TimerNotify
    \/ Tick
    \/ \E h \in Handlers : Recv(h)
    \/ \E h \in Handlers : Write(h)

SpecLive == InitLive /\ [][NextLive]_vars

\* C20: notify() is called only by a due timer, which is spent by it; a signal gets
\* into a channel only in such a call; the calls are at most the events that armed a
\* timer, which are at most the non-excluded events received; a client's frames and
\* signals under way are at most the calls; and as long as no non-excluded event was
\* received no call was made, no channel holds a signal and no frame was written
C20_NoSpuriousNotification ==
    /\ [][(log'.fired # log.fired \/ calls' # calls \/ \E h \in Handlers : chanBuf'[h] > chanBuf[h])
            => /\ TimerDue
               /\ \E x \in timer.live : x.due <= now /\ timer'.live = timer.live \ {x}
               /\ log'.fired = log.fired + 1 /\ calls' = calls + 1]_vars
    /\ [](/\ calls = log.fired
          /\ log.fired <= log.arms
          /\ log.arms <= log.accepted
          /\ \A h \in Handlers : frames[h] + InFlight(h) <= log.fired
          /\ log.accepted = 0 =>
                \A h \in Handlers : frames[h] = 0 /\ chanBuf[h] = 0 /\ hpc[h] # "write")

\* a burst of two events gave one notify() call and the client one frame
C20_BurstOneFrame ==
    /\ log.accepted = 2
    /\ log.arms = 2
    /\ log.fired = 1
    /\ frames[1] = 1
    /\ timer.live = {}

====
